---- MODULE Spec2Model ----
(***************************************************************************)
(* moldstamp: the content pipeline of the static site generator.           *)
(*   src/moldstamp/assetfiles.py  AssetFiles (traverse, load, sort)        *)
(*   src/moldstamp/article.py     Article (load: front-matter, title, toc) *)
(*   src/moldstamp/generator.py   execute (collect, load, sort, write)     *)
(* File names are sequences of characters, texts are sequences of lines    *)
(* (the text is its lines joined by "\n").                                 *)
(***************************************************************************)
EXTENDS Integers, Sequences, FiniteSets, TLC

VARIABLES
    tree,      \* the directory tree below src/articles: node id -> entry
    disk,      \* md_path -> text of the file (a sequence of lines)
    used,      \* AssetFiles.used
    articles,  \* AssetFiles.articles
    assets,    \* AssetFiles.assets
    pc,        \* position of the running program
    err,       \* the exception that left the program, "none" if none
    last,      \* locals of the most recent Article.load call
    log,       \* what AssetFiles.load printed: the exceptions it caught
    presort,   \* AssetFiles.articles as it was when sort was entered
    dst0,      \* the destination directory before the generator ran
    dst        \* the destination directory: its entries, and the writes of this run in order

vars == <<tree, disk, used, articles, assets, pc, err, last, log, presort, dst0, dst>>

(***************************************************************************)
(* Bounds                                                                  *)
(***************************************************************************)
MaxNodes == 3      \* entries below src/articles
MaxLines == 4      \* lines of an article's text

(***************************************************************************)
(* File names                                                              *)
(***************************************************************************)
RootName == <<"a", "r", "t", "i", "c", "l", "e", "s">>
X_MD     == <<"x", ".", "m", "d">>
Y_MD     == <<"y", ".", "m", "d">>
Z_MD     == <<"z", ".", "m", "d">>
DOT_X_MD == <<".", "x", ".", "m", "d">>
X_PNG    == <<"x", ".", "p", "n", "g">>
X_HTML   == <<"x", ".", "h", "t", "m", "l">>
INDEX_MD == <<"i", "n", "d", "e", "x", ".", "m", "d">>
SUB      == <<"s", "u", "b">>
DOT_GIT  == <<".", "g", "i", "t">>

FileNames == {X_MD, Y_MD, Z_MD, INDEX_MD, DOT_X_MD, X_PNG, X_HTML}
DirNames  == {SUB, DOT_GIT, X_MD}

Entries == [name : FileNames, dir : {FALSE}] \cup [name : DirNames, dir : {TRUE}]

\* str.rfind('.'): the last index of a dot, 0 when there is none
RECURSIVE rfind_dot(_, _)
rfind_dot(name, i) ==
    IF i = 0 THEN 0
    ELSE IF name[i] = "." THEN i
    ELSE rfind_dot(name, i - 1)

\* PurePath.suffix
suffix(name) ==
    LET i == rfind_dot(name, Len(name))
    IN  IF 1 < i /\ i < Len(name) THEN SubSeq(name, i, Len(name)) ELSE <<>>

\* PurePath.stem
stem(name) ==
    LET i == rfind_dot(name, Len(name))
    IN  IF 1 < i /\ i < Len(name) THEN SubSeq(name, 1, i - 1) ELSE name

(***************************************************************************)
(* The directory tree: node 0 is src/articles, node i > 0 has a parent     *)
(* among the directories before it; iterdir lists children by node id.     *)
(***************************************************************************)
IsDir(t, n) == n = 0 \/ t[n].dir

NameOf(t, n) == IF n = 0 THEN RootName ELSE t[n].name

WellFormed(t) ==
    \A i \in DOMAIN t :
        /\ t[i].parent < i
        /\ IsDir(t, t[i].parent)
        /\ \A j \in DOMAIN t :
              (j # i /\ t[j].parent = t[i].parent) => t[j].name # t[i].name

Nodes == { [parent |-> p, name |-> e.name, dir |-> e.dir] : p \in 0..(MaxNodes - 1), e \in Entries }

Trees == UNION { { t \in [1..n -> Nodes] : WellFormed(t) } : n \in 0..MaxNodes }

RECURSIVE PathOf(_, _)
PathOf(t, n) ==
    IF n = 0 THEN <<RootName>> ELSE Append(PathOf(t, t[n].parent), t[n].name)

\* Path.iterdir: the children of directory n, in enumeration order
RECURSIVE iterdir(_, _, _)
iterdir(t, n, from) ==
    IF from > Len(t) THEN <<>>
    ELSE IF t[from].parent = n THEN <<from>> \o iterdir(t, n, from + 1)
    ELSE iterdir(t, n, from + 1)

(***************************************************************************)
(* Article                                                                 *)
(***************************************************************************)
NoDatetime == [kind |-> "None", y |-> 0, m |-> 0, d |-> 0]
None == "None"

\* Article.__init__: toc is not assigned (has_toc = FALSE: the attribute is absent)
Article(md_path) ==
    [ md_path  |-> md_path,
      name     |-> stem(md_path[Len(md_path)]),
      title    |-> None,
      datetime |-> NoDatetime,
      date     |-> None,
      content  |-> <<>>,
      tags     |-> <<>>,
      has_toc  |-> FALSE,
      toc      |-> <<>> ]

(***************************************************************************)
(* Texts: the lines an article's text is made of                           *)
(***************************************************************************)
L_DELIM   == "+++"
L_NEAR    == "+++ "
L_DATE    == "date = 2023-05-01T00:00:00Z"
L_DATESTR == "date = \"today\""
L_TAGS    == "tags = [\"a\"]"
L_HEAD    == "# Hello"
L_TEXT    == "world"
L_BLANK   == ""

Lines == {L_DELIM, L_NEAR, L_DATE, L_DATESTR, L_TAGS, L_HEAD, L_TEXT, L_BLANK}

\* every text of at most MaxLines lines ("" is the text of one empty line)
Texts == UNION { [1..k -> Lines] : k \in 1..MaxLines }

\* a file whose bytes are not UTF-8: read_text raises UnicodeDecodeError
BadBytes == <<"<not utf-8>">>

(***************************************************************************)
(* SPLITTER = re.compile(r'^\+\+\+$', re.M) and SPLITTER.split(src, 2)     *)
(***************************************************************************)
\* mutant of SPLITTER: r'^\+\+\+\s*$', a delimiter may be followed by whitespace
SPLITTER_trailing_space(line) == line \in {"+++", "+++ "}

\* the regular expression matches a whole line that is exactly +++
SPLITTER(line) == line = "+++"

RECURSIVE first_match(_, _)
first_match(lines, i) ==
    IF i > Len(lines) THEN 0
    ELSE IF SPLITTER(lines[i]) THEN i
    ELSE first_match(lines, i + 1)

\* the segments of the text around at most maxsplit matches; the newline before
\* a match stays with the segment before it, the newline after it with the next
RECURSIVE split(_, _)
split(lines, maxsplit) ==
    LET i == first_match(lines, 1)
    IN  IF maxsplit = 0 \/ i = 0 THEN <<lines>>
        ELSE <<SubSeq(lines, 1, i - 1) \o <<"">>>>
             \o split(<<"">> \o SubSeq(lines, i + 1, Len(lines)), maxsplit - 1)

(***************************************************************************)
(* toml.loads on the metadata text                                         *)
(***************************************************************************)
Aware(y, m, d) == [kind |-> "aware", y |-> y, m |-> m, d |-> d]
Naive(y, m, d) == [kind |-> "naive", y |-> y, m |-> m, d |-> d]
DateOnly(y, m, d) == [kind |-> "date", y |-> y, m |-> m, d |-> d]
StrValue == [kind |-> "str", y |-> 0, m |-> 0, d |-> 0]

EmptyMapping == [keys |-> {}, date |-> NoDatetime, tags |-> <<>>, ok |-> TRUE]

\* one line of TOML: a blank line or a comment, a key with its value, or an error
toml_line(line) ==
    CASE line = "" -> [kind |-> "skip"]
      [] line = "# Hello" -> [kind |-> "skip"]
      [] line = "date = 2023-05-01T00:00:00Z" ->
            [kind |-> "date", value |-> Aware(2023, 5, 1)]
      [] line = "date = 2024-02-01T00:00:00Z" ->
            [kind |-> "date", value |-> Aware(2024, 2, 1)]
      [] line = "date = 2024-02-01T00:00:00" ->
            [kind |-> "date", value |-> Naive(2024, 2, 1)]
      [] line = "date = 2023-05-01" ->
            [kind |-> "date", value |-> DateOnly(2023, 5, 1)]
      [] line = "date = \"today\"" -> [kind |-> "date", value |-> StrValue]
      [] line = "tags = [\"a\"]" -> [kind |-> "tags", value |-> <<"a">>]
      [] OTHER -> [kind |-> "error"]

RECURSIVE toml_loads_from(_, _, _)
toml_loads_from(lines, i, mapping) ==
    IF i > Len(lines) \/ ~mapping.ok THEN mapping
    ELSE LET e == toml_line(lines[i])
         IN  IF e.kind = "skip" THEN toml_loads_from(lines, i + 1, mapping)
             ELSE IF e.kind = "error" \/ e.kind \in mapping.keys
                  THEN [mapping EXCEPT !.ok = FALSE]
             ELSE IF e.kind = "date"
                  THEN toml_loads_from(lines, i + 1,
                         [mapping EXCEPT !.keys = @ \cup {"date"}, !.date = e.value])
             ELSE toml_loads_from(lines, i + 1,
                         [mapping EXCEPT !.keys = @ \cup {"tags"}, !.tags = e.value])

\* toml.loads: ok = FALSE stands for TomlDecodeError
toml_loads(lines) == toml_loads_from(lines, 1, EmptyMapping)

(***************************************************************************)
(* datetime.strftime('%Y-%m-%d')                                           *)
(***************************************************************************)
Digits == <<"0", "1", "2", "3", "4", "5", "6", "7", "8", "9">>

D2(n) == Digits[(n \div 10) + 1] \o Digits[(n % 10) + 1]

strftime(dt) == D2(dt.y \div 100) \o D2(dt.y % 100) \o "-" \o D2(dt.m) \o "-" \o D2(dt.d)

\* datetime.datetime(2000, 1, 1, tzinfo=datetime.timezone.utc)
Sentinel == Aware(2000, 1, 1)

(***************************************************************************)
(* MD_TITLE_MATCH = re.compile(r'^\s*#\s*(.*?)\s*\n') matched at the start *)
(* of the body                                                             *)
(***************************************************************************)
IsHeading(line) == line = "# Hello"

HeadingText(line) == IF line = "# Hello" THEN "Hello" ELSE ""

RECURSIVE first_nonblank(_, _)
first_nonblank(lines, i) ==
    IF i > Len(lines) THEN 0
    ELSE IF lines[i] # "" THEN i
    ELSE first_nonblank(lines, i + 1)

\* the match needs the newline that ends the heading line: the heading is not the
\* last line of the body
MD_TITLE_MATCH(body) ==
    LET k == first_nonblank(body, 1)
    IN  IF k # 0 /\ IsHeading(body[k]) /\ k < Len(body)
        THEN [matched |-> TRUE, group1 |-> HeadingText(body[k])]
        ELSE [matched |-> FALSE, group1 |-> ""]

(***************************************************************************)
(* markdown2.Markdown(extras, link_patterns).convert(body): the HTML and   *)
(* toc_html of the external engine, for the lines above                     *)
(***************************************************************************)
RECURSIVE md_blocks(_, _, _)
md_blocks(body, i, para) ==
    LET flush == IF para = "" THEN <<>> ELSE <<"<p>" \o para \o "</p>">>
    IN  IF i > Len(body) THEN flush
        ELSE IF IsHeading(body[i])
             THEN flush \o <<"<h1 id=\"hello\">" \o HeadingText(body[i]) \o "</h1>">>
                  \o md_blocks(body, i + 1, "")
        ELSE IF body[i] = "" THEN flush \o md_blocks(body, i + 1, "")
        ELSE md_blocks(body, i + 1,
                       IF para = "" THEN body[i] ELSE para \o "\n" \o body[i])

headings(body) == SelectSeq(body, IsHeading)

\* toc_html is None when the body has no heading; otherwise the lines of
\* <ul> / one indented <li> per heading / </ul>  (after .strip().split('\n'))
toc_html(body) ==
    IF headings(body) = <<>> THEN [none |-> TRUE, lines |-> <<>>]
    ELSE [none |-> FALSE,
          lines |-> <<[indent |-> 0, li |-> FALSE, text |-> "<ul>"]>>
                    \o [k \in DOMAIN headings(body) |->
                          [indent |-> 2, li |-> TRUE, text |-> HeadingText(headings(body)[k])]]
                    \o <<[indent |-> 0, li |-> FALSE, text |-> "</ul>"]>>]

\* TITLE_MATCH = re.compile(r'^\s+<li><a href="[^"]*">([^<]*)')
TITLE_MATCH(tocline) ==
    IF tocline.indent > 0 /\ tocline.li
    THEN [matched |-> TRUE, group1 |-> tocline.text]
    ELSE [matched |-> FALSE, group1 |-> ""]

\* x[2:] for a line of the table of contents
drop2(tocline) ==
    [tocline EXCEPT !.indent = IF @ >= 2 THEN @ - 2 ELSE 0]

(***************************************************************************)
(* Article.load                                                            *)
(***************************************************************************)
NoLoad == [called |-> FALSE]

Locals(src, convert_md, nseg, split_taken, fm, body, raised) ==
    [called |-> TRUE, src |-> src, convert_md |-> convert_md, nseg |-> nseg,
     split_taken |-> split_taken, frontmatter |-> fm, body |-> body, raised |-> raised]

\* lines 49-75: title, conversion, table of contents
load_body(self, src, convert_md, nseg, split_taken, fm, body) ==
    LET m == MD_TITLE_MATCH(body)
        a1 == [self EXCEPT !.title = IF m.matched THEN m.group1 ELSE ""]
    IN  IF ~convert_md
        THEN [a |-> a1, loc |-> Locals(src, convert_md, nseg, split_taken, fm, body, "none")]
        ELSE LET a2 == [a1 EXCEPT !.content = md_blocks(body, 1, "")]
                 th == toc_html(body)
             IN  IF th.none
                 THEN [a |-> a2,
                       loc |-> Locals(src, convert_md, nseg, split_taken, fm, body,
                                      "AttributeError")]
                 ELSE LET splitted == th.lines
                          a3 == [a2 EXCEPT
                                   !.has_toc = TRUE,
                                   !.toc = [k \in 1..(Len(splitted) - 3) |->
                                              drop2(splitted[k + 2])]]
                          tm == TITLE_MATCH(splitted[2])
                          a4 == IF tm.matched THEN [a3 EXCEPT !.title = tm.group1] ELSE a3
                      IN  [a |-> a4,
                           loc |-> Locals(src, convert_md, nseg, split_taken, fm, body, "none")]

\* mutant of load_meta: no default for a missing date
load_meta_no_default(self, src, convert_md, nseg, split_taken, fm, body) ==
    LET dt == IF "date" \in fm.keys THEN fm.date ELSE NoDatetime
        a1 == [self EXCEPT !.datetime = dt]
    IN  IF dt.kind \in {"str", "None"}
        THEN [a |-> a1,
              loc |-> Locals(src, convert_md, nseg, split_taken, fm, body, "AttributeError")]
        ELSE load_body([a1 EXCEPT !.date = strftime(dt), !.tags = fm.tags],
                       src, convert_md, nseg, split_taken, fm, body)

\* lines 40-47: datetime, date, tags
load_meta(self, src, convert_md, nseg, split_taken, fm, body) ==
    LET got == IF "date" \in fm.keys THEN fm.date ELSE NoDatetime
        dt == IF got = NoDatetime THEN Sentinel ELSE got
        a1 == [self EXCEPT !.datetime = dt]
    IN  IF dt.kind = "str"
        THEN [a |-> a1,
              loc |-> Locals(src, convert_md, nseg, split_taken, fm, body, "AttributeError")]
        ELSE load_body([a1 EXCEPT !.date = strftime(dt), !.tags = fm.tags],
                       src, convert_md, nseg, split_taken, fm, body)

\* lines 28-39: read the file, split off the front-matter
load(self, text, convert_md) ==
    IF text = BadBytes
    THEN [a |-> self,
          loc |-> Locals(text, convert_md, 0, FALSE, EmptyMapping, <<>>, "UnicodeDecodeError")]
    ELSE LET src == text
             splitted == split(src, 2)
         IN  IF Len(splitted) = 3
             THEN LET fm == toml_loads(splitted[2])
                  IN  IF ~fm.ok
                      THEN [a |-> self,
                            loc |-> Locals(src, convert_md, 3, TRUE, EmptyMapping, <<>>,
                                           "TomlDecodeError")]
                      ELSE load_meta(self, src, convert_md, 3, TRUE, fm, splitted[3])
             ELSE load_meta(self, src, convert_md, Len(splitted), FALSE, EmptyMapping, src)

(***************************************************************************)
(* AssetFiles.traverse                                                     *)
(***************************************************************************)
AssetFilesInit == [used |-> {}, articles |-> <<>>, assets |-> <<>>, err |-> "none"]

RECURSIVE traverse(_, _, _)
RECURSIVE traverse_children(_, _, _)

\* mutant of traverse: the name is never looked up in used
traverse_unchecked(t, n, self) ==
    IF self.err # "none" THEN self
    ELSE IF NameOf(t, n)[1] = "." THEN self
    ELSE IF IsDir(t, n) THEN traverse_children(t, iterdir(t, n, 1), self)
    ELSE IF suffix(NameOf(t, n)) = <<".", "m", "d">> THEN
        [self EXCEPT !.used = @ \cup {stem(NameOf(t, n))},
                     !.articles = Append(@, Article(PathOf(t, n)))]
    ELSE [self EXCEPT !.assets = Append(@, PathOf(t, n))]

\* mutant of traverse: only dot-prefixed files are skipped, directories are descended
traverse_dotdirs(t, n, self) ==
    IF self.err # "none" THEN self
    ELSE IF IsDir(t, n) THEN traverse_children(t, iterdir(t, n, 1), self)
    ELSE IF NameOf(t, n)[1] = "." THEN self
    ELSE IF suffix(NameOf(t, n)) = <<".", "m", "d">> THEN
        LET article_name == stem(NameOf(t, n))
        IN  IF article_name \in self.used
            THEN [self EXCEPT !.err = "RuntimeError"]
            ELSE [self EXCEPT !.used = @ \cup {article_name},
                              !.articles = Append(@, Article(PathOf(t, n)))]
    ELSE [self EXCEPT !.assets = Append(@, PathOf(t, n))]

traverse(t, n, self) ==
    IF self.err # "none" THEN self
    ELSE IF NameOf(t, n)[1] = "." THEN self
    ELSE IF IsDir(t, n) THEN traverse_children(t, iterdir(t, n, 1), self)
    ELSE IF suffix(NameOf(t, n)) = <<".", "m", "d">> THEN
        LET article_name == stem(NameOf(t, n))
        IN  IF article_name \in self.used
            THEN [self EXCEPT !.err = "RuntimeError"]
            ELSE [self EXCEPT !.used = @ \cup {article_name},
                              !.articles = Append(@, Article(PathOf(t, n)))]
    ELSE [self EXCEPT !.assets = Append(@, PathOf(t, n))]

traverse_children(t, children, self) ==
    IF children = <<>> THEN self
    ELSE traverse_children(t, Tail(children), traverse(t, Head(children), self))

\* asset_files = AssetFiles(); asset_files.traverse(src / 'articles')
Traverse ==
    /\ pc = "start"
    /\ LET r == traverse(tree, 0, AssetFilesInit)
       IN  /\ used' = r.used
           /\ articles' = r.articles
           /\ assets' = r.assets
           /\ err' = r.err
           /\ pc' = IF r.err = "none" THEN "traversed" ELSE "failed"
    /\ UNCHANGED <<tree, disk, last, log, presort, dst0, dst>>

(***************************************************************************)
(* AssetFiles.load                                                         *)
(***************************************************************************)
\* for a in self.articles: try: a.load(convert_md) except AttributeError as e: print(e)
RECURSIVE load_all(_, _, _, _, _, _)
load_all(arts, files, i, convert_md, printed, loc) ==
    IF i > Len(arts) THEN [articles |-> arts, log |-> printed, err |-> "none", last |-> loc]
    ELSE LET r == load(arts[i], files[arts[i].md_path], convert_md)
             arts1 == [arts EXCEPT ![i] = r.a]
         IN  IF r.loc.raised = "none"
             THEN load_all(arts1, files, i + 1, convert_md, printed, r.loc)
             ELSE IF r.loc.raised = "AttributeError"
             THEN load_all(arts1, files, i + 1, convert_md,
                           Append(printed, r.loc.raised), r.loc)
             ELSE [articles |-> arts1, log |-> printed, err |-> r.loc.raised, last |-> r.loc]

\* asset_files.load(convert_md)
AssetLoad(convert_md) ==
    /\ pc = "traversed"
    /\ LET r == load_all(articles, disk, 1, convert_md, <<>>, last)
       IN  /\ articles' = r.articles
           /\ log' = r.log
           /\ err' = r.err
           /\ last' = r.last
           /\ pc' = IF r.err = "none" THEN "loaded" ELSE "failed"
    /\ UNCHANGED <<tree, disk, used, assets, presort, dst0, dst>>

\* a.load(convert_md) called on one article; the exception, if any, reaches the caller
ArticleLoad(i, convert_md) ==
    /\ pc = "traversed"
    /\ i \in DOMAIN articles
    /\ LET r == load(articles[i], disk[articles[i].md_path], convert_md)
       IN  /\ articles' = [articles EXCEPT ![i] = r.a]
           /\ last' = r.loc
           /\ err' = r.loc.raised
    /\ UNCHANGED <<tree, disk, used, assets, pc, log, presort, dst0, dst>>

(***************************************************************************)
(* AssetFiles.sort: sorted(self.articles, reverse=True, key=datetime)      *)
(***************************************************************************)
Reverse(seq) == [k \in 1..Len(seq) |-> seq[Len(seq) + 1 - k]]

\* the order of two keys of one kind
key_lt(a, b) ==
    \/ a.y < b.y
    \/ a.y = b.y /\ a.m < b.m
    \/ a.y = b.y /\ a.m = b.m /\ a.d < b.d

\* x < y raises TypeError: None against anything, and keys of two different kinds
\* (aware and naive datetimes, a datetime and a date, a str and a datetime)
incomparable(a, b) == a.kind = "None" \/ b.kind = "None" \/ a.kind # b.kind

\* insert x behind every element that is not greater than it
RECURSIVE insert_sorted(_, _)
insert_sorted(sorted, x) ==
    IF sorted = <<>> THEN <<x>>
    ELSE IF key_lt(x.datetime, Head(sorted).datetime) THEN <<x>> \o sorted
    ELSE <<Head(sorted)>> \o insert_sorted(Tail(sorted), x)

RECURSIVE stable_sort(_, _)
stable_sort(seq, i) ==
    IF i = 0 THEN <<>> ELSE insert_sorted(stable_sort(seq, i - 1), seq[i])

\* mutant of sorted_reverse: the ascending sort, reversed
sorted_then_reversed(seq) == Reverse(stable_sort(seq, Len(seq)))

\* sorted(seq, reverse=True, key=...): the list is reversed, sorted ascending and
\* stable, and reversed again
sorted_reverse(seq) ==
    LET rev == Reverse(seq)
    IN  Reverse(stable_sort(rev, Len(rev)))

sort_raises(seq) ==
    /\ Len(seq) >= 2
    /\ \E i, j \in DOMAIN seq : i # j /\ incomparable(seq[i].datetime, seq[j].datetime)

Sort ==
    /\ pc = "loaded"
    /\ presort' = articles
    /\ IF sort_raises(articles)
       THEN /\ err' = "TypeError"
            /\ pc' = "failed"
            /\ UNCHANGED articles
       ELSE /\ articles' = sorted_reverse(articles)
            /\ pc' = "sorted"
            /\ UNCHANGED err
    /\ UNCHANGED <<tree, disk, used, assets, last, log, dst0, dst>>

(***************************************************************************)
(* generator.execute, after collect / load / sort                          *)
(***************************************************************************)
INDEX_HTML  == <<"i", "n", "d", "e", "x", ".", "h", "t", "m", "l">>
DEFAULT_CSS == <<"d", "e", "f", "a", "u", "l", "t", ".", "c", "s", "s">>
OLD_HTML    == <<"o", "l", "d", ".", "h", "t", "m", "l">>

\* mutant of Clear: the destination is cleared before the tree is collected
ClearFirst ==
    /\ pc = "start"
    /\ dst.files # {}
    /\ dst' = [dst EXCEPT !.exists = TRUE, !.files = {}]
    /\ UNCHANGED <<tree, disk, used, articles, assets, pc, err, last, log, presort, dst0>>

\* if dst.exists(): remove every child; else: dst.mkdir()
Clear ==
    /\ pc = "sorted"
    /\ dst' = [dst EXCEPT !.exists = TRUE, !.files = {}]
    /\ pc' = "cleared"
    /\ UNCHANGED <<tree, disk, used, articles, assets, err, last, log, presort, dst0>>

\* index_path.open('w') ... f.write(rendered)
WriteIndex ==
    /\ pc = "cleared"
    /\ dst' = [dst EXCEPT !.files = @ \cup {INDEX_HTML}, !.writes = Append(@, INDEX_HTML)]
    /\ pc' = "index"
    /\ UNCHANGED <<tree, disk, used, articles, assets, err, last, log, presort, dst0>>

\* for a in asset_files.articles: write dst / f'{a.name}.html'
WriteArticles ==
    /\ pc = "index"
    /\ LET write_path == [k \in DOMAIN articles |->
                            articles[k].name \o <<".", "h", "t", "m", "l">>]
       IN  dst' = [dst EXCEPT !.files = @ \cup { write_path[k] : k \in DOMAIN articles },
                              !.writes = @ \o write_path]
    /\ pc' = "articles"
    /\ UNCHANGED <<tree, disk, used, articles, assets, err, last, log, presort, dst0>>

\* css_path.open('w') ... f.write(...)
WriteCss ==
    /\ pc = "articles"
    /\ dst' = [dst EXCEPT !.files = @ \cup {DEFAULT_CSS}, !.writes = Append(@, DEFAULT_CSS)]
    /\ pc' = "css"
    /\ UNCHANGED <<tree, disk, used, articles, assets, err, last, log, presort, dst0>>

\* for asset in asset_files.assets: shutil.copyfile(src / asset, dst / asset.name)
CopyAssets ==
    /\ pc = "css"
    /\ LET target == [k \in DOMAIN assets |-> assets[k][Len(assets[k])]]
       IN  dst' = [dst EXCEPT !.files = @ \cup { target[k] : k \in DOMAIN assets },
                              !.writes = @ \o target]
    /\ pc' = "done"
    /\ UNCHANGED <<tree, disk, used, articles, assets, err, last, log, presort, dst0>>

(***************************************************************************)
(* Initial states and specifications                                       *)
(***************************************************************************)
\* the .md files of the tree, read by Article.load
MdPaths(t) ==
    { PathOf(t, n) : n \in { k \in DOMAIN t : ~t[k].dir /\ suffix(t[k].name) = <<".", "m", "d">> } }

T_2023     == <<"+++", "date = 2023-05-01T00:00:00Z", "+++", "# Hello", "world">>
T_2024     == <<"+++", "date = 2024-02-01T00:00:00Z", "+++", "# Hello", "world">>
T_NODATE   == <<"# Hello", "world">>
T_NAIVE    == <<"+++", "date = 2024-02-01T00:00:00", "+++", "# Hello", "world">>
T_DATESTR  == <<"+++", "date = \"today\"", "+++", "# Hello", "world">>
T_HEADLESS == <<"world">>
T_BADTOML  == <<"+++", "world", "+++", "# Hello", "world">>

BulkTexts == {T_2023, T_2024, T_NODATE, T_NAIVE, T_DATESTR, T_HEADLESS, T_BADTOML,
              BadBytes}

GenTexts == {T_2023, T_HEADLESS, T_BADTOML}

NoDst == [exists |-> FALSE, files |-> {}, writes |-> <<>>]

InitWith(t, files, d) ==
    /\ tree = t
    /\ disk = files
    /\ used = {}
    /\ articles = <<>>
    /\ assets = <<>>
    /\ pc = "start"
    /\ err = "none"
    /\ last = NoLoad
    /\ log = <<>>
    /\ presort = <<>>
    /\ dst0 = d
    /\ dst = d

\* the traversal alone, over every tree
InitTraverse ==
    \E t \in Trees : InitWith(t, [p \in MdPaths(t) |-> T_NODATE], NoDst)

NextTraverse == Traverse

SpecTraverse == InitTraverse /\ [][NextTraverse]_vars

\* one article, every text: a.load called any number of times
InitLoad ==
    \E text \in Texts \cup {BadBytes} :
        LET t == <<[parent |-> 0, name |-> X_MD, dir |-> FALSE]>>
        IN  InitWith(t, [p \in MdPaths(t) |-> text], NoDst)

NextLoad ==
    \/ Traverse
    \/ \E convert_md \in BOOLEAN : ArticleLoad(1, convert_md)

SpecLoad == InitLoad /\ [][NextLoad]_vars

\* collect, bulk load and sort over the articles of one directory
FlatTrees ==
    { t \in Trees : \A i \in DOMAIN t : t[i].parent = 0 /\ t[i].name \in {X_MD, Y_MD, Z_MD} /\ ~t[i].dir }

InitBulk ==
    \E t \in FlatTrees : \E files \in [MdPaths(t) -> BulkTexts] : InitWith(t, files, NoDst)

NextBulk ==
    \/ Traverse
    \/ \E convert_md \in BOOLEAN : AssetLoad(convert_md)
    \/ Sort

SpecBulk == InitBulk /\ [][NextBulk]_vars

\* the generator: execute(src, dst)
GenNames == {X_MD, INDEX_MD, X_PNG, X_HTML, SUB}

GenTrees == { t \in Trees : \A i \in DOMAIN t : t[i].name \in GenNames }

Init ==
    \E t \in GenTrees : \E files \in [MdPaths(t) -> GenTexts] :
        \E d \in {NoDst, [exists |-> TRUE, files |-> {OLD_HTML}, writes |-> <<>>]} :
            InitWith(t, files, d)

Next ==
    \/ Traverse
    \/ AssetLoad(TRUE)
    \/ Sort
    \/ Clear
    \/ WriteIndex
    \/ WriteArticles
    \/ WriteCss
    \/ CopyAssets

Spec == Init /\ [][Next]_vars

(***************************************************************************)
(* Properties of the traversal                                             *)
(***************************************************************************)
\* the entries the traversal reaches: not dot-prefixed, below no dot-prefixed directory
RECURSIVE Reached(_, _)
Reached(t, n) ==
    n = 0 \/ (t[n].name[1] # "." /\ Reached(t, t[n].parent))

ReachedFiles(t) == { n \in DOMAIN t : ~t[n].dir /\ Reached(t, n) }

IsMd(name) ==
    /\ Len(name) > 3
    /\ SubSeq(name, Len(name) - 2, Len(name)) = <<".", "m", "d">>

MdFiles(t) == { n \in ReachedFiles(t) : IsMd(t[n].name) }

StemOfMd(name) == SubSeq(name, 1, Len(name) - 3)

SharedStem(t) ==
    \E i, j \in MdFiles(t) : i # j /\ StemOfMd(t[i].name) = StemOfMd(t[j].name)

Count(seq, x) == Cardinality({ k \in DOMAIN seq : seq[k] = x })

ArticlePaths == [ k \in DOMAIN articles |-> articles[k].md_path ]

\* C1: traverse fails with the duplicate-article-name error exactly when two reached
\* .md files share a stem; otherwise it completes and the article names are distinct.
C1_DuplicateIff ==
    pc \in {"traversed", "failed"} =>
        /\ (pc = "failed" /\ err = "RuntimeError") <=> SharedStem(tree)
        /\ ~SharedStem(tree) =>
              /\ pc = "traversed"
              /\ \A i, j \in DOMAIN articles :
                    i # j => articles[i].name # articles[j].name

\* two reached .md files in different directories share a stem and traverse has raised
C1_Witness ==
    /\ pc = "failed"
    /\ err = "RuntimeError"
    /\ \E i, j \in MdFiles(tree) :
          /\ i # j
          /\ tree[i].parent # tree[j].parent
          /\ StemOfMd(tree[i].name) = StemOfMd(tree[j].name)

\* C10: after a successful traversal nothing dot-prefixed and nothing below a
\* dot-prefixed directory is collected, and every other file is collected exactly
\* once: in articles when its extension is .md, in assets otherwise.
C10_Classification ==
    pc = "traversed" =>
        /\ \A n \in DOMAIN tree :
              LET p == PathOf(tree, n)
              IN  /\ Count(ArticlePaths, p) =
                        (IF n \in MdFiles(tree) THEN 1 ELSE 0)
                  /\ Count(assets, p) =
                        (IF n \in ReachedFiles(tree) \ MdFiles(tree) THEN 1 ELSE 0)
        /\ \A k \in DOMAIN articles : \E n \in DOMAIN tree : articles[k].md_path = PathOf(tree, n)
        /\ \A k \in DOMAIN assets : \E n \in DOMAIN tree : assets[k] = PathOf(tree, n)

\* a successful traversal of a tree that holds a dot-prefixed directory with a file
\* in it, and a collected file
C10_Witness ==
    /\ pc = "traversed"
    /\ Len(articles) + Len(assets) > 0
    /\ \E n \in DOMAIN tree :
          /\ ~tree[n].dir
          /\ tree[n].parent # 0
          /\ tree[tree[n].parent].name[1] = "."

(***************************************************************************)
(* Properties of the ordering                                              *)
(***************************************************************************)
KeyNum(dt) == dt.y * 10000 + dt.m * 100 + dt.d

PosIn(seq, x) == CHOOSE k \in DOMAIN seq : seq[k] = x

\* C2: sort yields a permutation of the collected articles, ordered by publishedAt
\* descending, articles with equal publishedAt in their collection order; sorting
\* the sorted collection again changes nothing.
C2_StableDescending ==
    pc = "sorted" =>
        /\ Len(articles) = Len(presort)
        /\ \A k \in DOMAIN presort : Count(articles, presort[k]) = 1
        /\ \A i, j \in DOMAIN articles :
              i < j =>
                /\ KeyNum(articles[i].datetime) >= KeyNum(articles[j].datetime)
                /\ KeyNum(articles[i].datetime) = KeyNum(articles[j].datetime)
                     => PosIn(presort, articles[i]) < PosIn(presort, articles[j])
        /\ sorted_reverse(articles) = articles

\* three articles were sorted, two of them with one timestamp, and the order changed
C2_Witness ==
    /\ pc = "sorted"
    /\ Len(articles) = 3
    /\ articles # presort
    /\ \E i, j, k \in DOMAIN articles :
          /\ i < j
          /\ KeyNum(articles[i].datetime) = KeyNum(articles[j].datetime)
          /\ KeyNum(articles[k].datetime) # KeyNum(articles[i].datetime)

(***************************************************************************)
(* Properties of the bulk load                                             *)
(***************************************************************************)
LoadErrors == {"AttributeError", "TomlDecodeError", "UnicodeDecodeError"}

\* C3: no error of a single article's load leaves AssetFiles.load: the bulk load
\* always returns, with every article's load attempted.
C3_BulkLoadCatchesAll ==
    /\ err \notin LoadErrors
    /\ pc = "loaded" => \A k \in DOMAIN articles :
                           articles[k].title # None \/ Len(log) > 0

\* C11: once the bulk load has returned, sort completes without error, whatever
\* the mix of articles: dated, undated (sentinel), or failed and caught in the load.
C11_SortCompletesAfterLoad ==
    ~(pc = "failed" /\ err = "TypeError" /\ last.called)

(***************************************************************************)
(* Properties of Article.load                                              *)
(***************************************************************************)
DelimiterLines(src) == { i \in DOMAIN src : src[i] = "+++" }

Decoded == last.called /\ last.raised # "UnicodeDecodeError"

\* C4: a text with two +++ lines and text before the first of them has no
\* front-matter: the mapping is empty and the body is the whole input.
C4_PreambleMeansNoFrontMatter ==
    ( /\ Decoded
      /\ Cardinality(DelimiterLines(last.src)) >= 2
      /\ \E i \in DOMAIN last.src :
            /\ last.src[i] # ""
            /\ \A d \in DelimiterLines(last.src) : i < d )
    => /\ last.raised # "TomlDecodeError"
       /\ last.frontmatter = EmptyMapping
       /\ last.body = last.src

\* C5: a text with no +++ line or one +++ line has no front-matter: the mapping is
\* empty and the body is the input unchanged.
C5_FewDelimitersRoundTrip ==
    (Decoded /\ Cardinality(DelimiterLines(last.src)) <= 1)
    => /\ last.raised # "TomlDecodeError"
       /\ ~last.split_taken
       /\ last.frontmatter = EmptyMapping
       /\ last.body = last.src
       /\ last.body = disk[articles[1].md_path]

\* a text with exactly one +++ line, and a near miss beside it, was loaded
C5_Witness ==
    /\ Decoded
    /\ Cardinality(DelimiterLines(last.src)) = 1
    /\ \E i \in DOMAIN last.src : last.src[i] = "+++ "
    /\ last.body = last.src

\* the leading-heading rule: the first line of the body that is not blank is a
\* # heading
LeadingHeading(body) ==
    IF \E k \in DOMAIN body :
          /\ body[k] = "# Hello"
          /\ \A j \in 1..(k - 1) : body[j] = ""
    THEN "Hello" ELSE ""

\* C6: after load(convert_md=False) has completed, content and toc are present and
\* empty and the title is the one of the leading-heading rule, whatever the article
\* was before.
C6_SkippedConversionLeavesEmpty ==
    (last.called /\ ~last.convert_md /\ last.raised = "none")
    => /\ articles[1].content = <<>>
       /\ articles[1].has_toc
       /\ articles[1].toc = <<>>
       /\ articles[1].title = LeadingHeading(last.body)

\* C7: an article with no front-matter, or with front-matter that has no date key,
\* gets the sentinel 2000-01-01 UTC as publishedAt and "2000-01-01" as dateLabel.
C7_MissingDateDefaults ==
    ( /\ Decoded
      /\ last.raised # "TomlDecodeError"
      /\ "date" \notin last.frontmatter.keys )
    => /\ articles[1].datetime = [kind |-> "aware", y |-> 2000, m |-> 1, d |-> 1]
       /\ articles[1].date = "2000-01-01"
       /\ last.raised = "none" => articles[1].title # None

\* an article with front-matter that has tags and no date was loaded to the end
C7_Witness ==
    /\ Decoded
    /\ last.split_taken
    /\ last.frontmatter.keys = {"tags"}
    /\ last.raised = "none"
    /\ articles[1].date = "2000-01-01"

\* C8: with conversion on, a body with no heading (so no leading # heading and no
\* entry in the table of contents) loads normally and the title is "".
C8_MissingTitleIsNoError ==
    ( /\ Decoded
      /\ last.convert_md
      /\ last.raised # "TomlDecodeError"
      /\ last.frontmatter.date.kind # "str"
      /\ \A k \in DOMAIN last.body : last.body[k] # "# Hello" )
    => /\ last.raised = "none"
       /\ articles[1].title = ""

(***************************************************************************)
(* Properties of the generator                                             *)
(***************************************************************************)
\* C9: when the collection fails (a duplicate article name stops the traversal),
\* nothing under the destination has been deleted, created or written.
C9_NoPartialOutput ==
    (pc = "failed" /\ err = "RuntimeError") => dst = dst0

\* the traversal failed on a duplicate name with files present in the destination
C9_Witness ==
    /\ pc = "failed"
    /\ err = "RuntimeError"
    /\ dst0.exists
    /\ dst0.files # {}

\* C12: in one run every output is written to a path of its own: no path under the
\* destination is written twice (index.html, default.css, <article>.html, <asset>).
C12_OutputsDistinct ==
    \A i, j \in DOMAIN dst.writes : i # j => dst.writes[i] # dst.writes[j]

====
